---- MODULE Spec2Model ----
(***************************************************************************)
(* A model of lib/ls.js (npm ls): the breadth-first walk over the actual   *)
(* tree, the classification of edges, the inclusion filter, the problem    *)
(* collector and the two renderings.                                       *)
(*                                                                         *)
(* Objects of the JavaScript heap that the walk touches are kept in objs:  *)
(* ids 0..3 are the Arborist Nodes of the loaded tree (0 is the root),     *)
(* larger ids are the placeholder objects that edgesToNodes and            *)
(* getChildren synthesize.  The symbol-keyed marker fields (_parent,       *)
(* _depth, _include, _invalid, _type, _missing, _dedupe) are fields of     *)
(* these records, so that a Node reached from two positions carries one    *)
(* set of markers, as in the code.                                         *)
(*                                                                         *)
(* The walk is treeverse's breadth(): a FIFO queue that starts with the    *)
(* root; each turn shifts one object, skips it when it was visited before, *)
(* and otherwise calls visit, then getChildren, and pushes the children.   *)
(***************************************************************************)
EXTENDS Integers, Sequences, FiniteSets, TLC

VARIABLES
  nodes,        \* ids of the non-root Nodes present in the loaded tree
  edges,        \* the edges of the loaded tree (all edgesOut maps together)
  fsParent,     \* node id -> id of the Node whose children map holds it
  links,        \* ids of the Nodes that are filesystem links
  extraneous,   \* ids of the Nodes the graph provider flags extraneous
  rootError,    \* tree.errors holds an EJSONPARSE error of the root manifest
  args,         \* positional arguments (sequence of specs)
  flatOptions,  \* npm.flatOptions: depth, parseable
  config,       \* npm.config: dev, development, link, only, prod, production
  objs,         \* heap: object id -> record
  queue,        \* treeverse's queue of object ids
  seen,         \* ls's seen Set, in insertion order
  items,        \* visit results: object id -> item {label, nodes}
  problems,     \* ls's problems Set, in insertion order
  result,       \* what breadth() returned, after the (empty) fix-up
  exitCode,     \* process.exitCode
  out,          \* sequence of the values handed to output()
  error,        \* the error ls rejected with
  pc,           \* position in ls
  run,          \* which invocation of ls this is in the process (1 or 2)
  firstRun      \* what the first invocation ended with, once a second began

vars == <<nodes, edges, fsParent, links, extraneous, rootError, args, flatOptions, config,
          objs, queue, seen, items, problems, result, exitCode, out, error, pc,
          run, firstRun>>

inputs == <<nodes, edges, fsParent, links, extraneous, rootError, args, flatOptions, config>>
invocations == <<run, firstRun>>

----------------------------------------------------------------------------
(* Bounds of the model *)

MaxEdges == 4
MaxKindEdges == 2
MaxInvalidEdges == 3
MaxDepth == 2

----------------------------------------------------------------------------
(* The loaded tree *)

tree == 0
Infinity == 1000
NoNode == -1
NoItem == -1
Undefined == -1

(* The installed packages a, b and c *)
NodeIds == {1, 2, 3}
AllNodeIds == {tree} \cup NodeIds

(* pkgid, name and path of the Nodes *)
NodePkgids == <<"a@1.0.0", "b@1.0.0", "c@1.0.0">>
NodeNames == <<"a", "b", "c">>
NodePaths == <<"/prj/node_modules/a", "/prj/node_modules/b", "/prj/node_modules/c">>
(* The path of package n installed in the node_modules of package p *)
NestedPaths ==
  << <<"/prj/node_modules/a/node_modules/a", "/prj/node_modules/a/node_modules/b",
       "/prj/node_modules/a/node_modules/c">>,
     <<"/prj/node_modules/b/node_modules/a", "/prj/node_modules/b/node_modules/b",
       "/prj/node_modules/b/node_modules/c">>,
     <<"/prj/node_modules/c/node_modules/a", "/prj/node_modules/c/node_modules/b",
       "/prj/node_modules/c/node_modules/c">> >>
(* name@range of an edge to the package, satisfied by 1.0.0 or not *)
NodeSpecPkgids == <<"a@^1.0.0", "b@^1.0.0", "c@^1.0.0">>
NodeInvalidSpecPkgids == <<"a@^2.0.0", "b@^2.0.0", "c@^2.0.0">>
RootPkgid == "prj@1.0.0"
(* The root's pkgid when its package.json could not be parsed: the package *)
(* is {} and has no version                                                 *)
RootPkgidNoManifest == "prj@"
RootPath == "/prj"
MissingPkgid == "bar@^1.0.0"
NoPath == ""
RealPath == "/elsewhere"

Pkgid(n) ==
  IF n = tree THEN (IF rootError THEN RootPkgidNoManifest ELSE RootPkgid)
  ELSE NodePkgids[n]
(* A package sits in the node_modules of the root or of a package that     *)
(* sits in the root's                                                       *)
Path(n) ==
  IF n = tree THEN RootPath
  ELSE IF n \in DOMAIN fsParent /\ fsParent[n] # tree THEN NestedPaths[fsParent[n]][n]
  ELSE NodePaths[n]
Name(n) == IF n = tree THEN "prj" ELSE NodeNames[n]

(* String.prototype.localeCompare on the pkgids of the model: their order  *)
(* under the default collation, given as the position in the sorted list.  *)
PkgidOrder == <<"a@1.0.0", "b@1.0.0", "bar@^1.0.0", "c@1.0.0", "prj@", "prj@1.0.0">>
Rank(p) == CHOOSE i \in 1..Len(PkgidOrder) : PkgidOrder[i] = p
localeCompare(a, b) == Rank(a) - Rank(b)

(* Edge getters of the graph provider, as ls.js reads them *)
EdgeDev(e) == e.type = "dev"
EdgeOptional(e) == e.type \in {"optional", "peerOptional"}
EdgePeer(e) == e.type \in {"peer", "peerOptional"}
(* edge.peerOptional: the Edge class has no such getter, the value is      *)
(* undefined for every edge                                                 *)
EdgePeerOptional(e) == FALSE
EdgeMissing(e) == e.to = NoNode /\ ~EdgeOptional(e)
(* `${name}@${spec}` *)
EdgeSpecPkgid(e) ==
  IF e.to = NoNode THEN MissingPkgid
  ELSE IF e.invalid THEN NodeInvalidSpecPkgids[e.to]
  ELSE NodeSpecPkgids[e.to]

(* The ids reachable from S along resolved edges *)
RECURSIVE ReachFrom(_, _)
ReachFrom(S, E) ==
  LET T == S \cup {e.to : e \in {x \in E : x.from \in S /\ x.to # NoNode}}
  IN IF T = S THEN S ELSE ReachFrom(T, E)

Extraneous(n) == n \in extraneous
IsLink(n) == n \in links

(* The provider fills edgesOut kind by kind: peer dependencies first, then *)
(* dependencies, optional dependencies and, at the root, devDependencies   *)
KindRank(ty) ==
  CASE ty = "peer" -> 1 [] ty = "peerOptional" -> 2 [] ty = "prod" -> 3
    [] ty = "optional" -> 4 [] OTHER -> 5

(* [...node.edgesOut.values()]: the Map's insertion order, which within a  *)
(* kind is the order of the keys in the manifest: every order of the edges *)
(* of n that goes kind by kind                                              *)
EdgesOutOrders(n) ==
  LET S == {e \in edges : e.from = n}
      k == Cardinality(S)
  IN {s \in [1..k -> S] :
        /\ \A i, j \in 1..k : i # j => s[i] # s[j]
        /\ \A i, j \in 1..k : i < j => KindRank(s[i].type) <= KindRank(s[j].type)}

(* [...node.children.values()]: the Map's insertion order, which follows   *)
(* the provider's directory reads and differs from load to load: every     *)
(* order of the children of n                                               *)
ChildrenOrders(n) ==
  LET S == {c \in nodes : fsParent[c] = n}
      k == Cardinality(S)
  IN {s \in [1..k -> S] : \A i, j \in 1..k : i # j => s[i] # s[j]}

(* node.satisfies(spec), for specs that are bare package names *)
Satisfies(n, spec) == Name(n) = spec

----------------------------------------------------------------------------
(* Heap objects *)

NodeObj(n) ==
  [kind |-> "node", node |-> n, pkgid |-> Pkgid(n), path |-> Path(n),
   parent |-> NoItem, depth |-> Undefined, include |-> FALSE,
   invalid |-> FALSE, type |-> "", missing |-> "", dedupe |-> FALSE]

(* { name, pkgid, [_missing]: edge.from.pkgid } *)
MissingObj(e) ==
  [kind |-> "missing", node |-> NoNode, pkgid |-> EdgeSpecPkgid(e), path |-> NoPath,
   parent |-> NoItem, depth |-> Undefined, include |-> FALSE,
   invalid |-> FALSE, type |-> "", missing |-> Pkgid(e.from), dedupe |-> FALSE]

(* Mutant: the deduped reference is a copy of the Node, path included *)
DedupeObjKeepingPath(o) ==
  [kind |-> "dedupe", node |-> o.node, pkgid |-> o.pkgid, path |-> o.path,
   parent |-> NoItem, depth |-> Undefined, include |-> FALSE,
   invalid |-> FALSE, type |-> "", missing |-> "", dedupe |-> TRUE]

(* Mutant: the stand-in for a seen Node is a Node again, so it is        *)
(* expanded like the Node it stands for                                    *)
DedupeObjAsNode(o) ==
  [o EXCEPT !.dedupe = TRUE, !.parent = NoItem, !.depth = Undefined, !.include = FALSE]

(* { pkgid: i.pkgid, package: i.package, [_dedupe]: true } *)
DedupeObj(o) ==
  [kind |-> "dedupe", node |-> o.node, pkgid |-> o.pkgid, path |-> NoPath,
   parent |-> NoItem, depth |-> Undefined, include |-> FALSE,
   invalid |-> FALSE, type |-> "", missing |-> "", dedupe |-> TRUE]

Size(h) == Cardinality(DOMAIN h)
Alloc(h, rec) == [i \in 0..Size(h) |-> IF i < Size(h) THEN h[i] ELSE rec]

(* node instanceof Arborist.Node *)
IsArboristNode(o) == o.kind = "node"
ObjExtraneous(o) == o.kind = "node" /\ Extraneous(o.node)
ObjIsLink(o) == o.kind = "node" /\ IsLink(o.node)
ObjIsRoot(o) == o.kind = "node" /\ o.node = tree

----------------------------------------------------------------------------
(* getHumanOutputItem: label and problem of a traversal node (color and     *)
(* long are off, the root has a manifest, no Node is a git dependency)      *)

(* !Object.keys(node.package).length: the root's package is {} when its    *)
(* package.json could not be parsed                                         *)
hasNoPackageJson(o) == ObjIsRoot(o) /\ rootError

Printable(o) ==
  IF ObjIsRoot(o)
  THEN (IF hasNoPackageJson(o) THEN <<o.path>> ELSE <<o.pkgid, " ", o.path>>)
  ELSE <<o.pkgid>>

MissingMsg(o) == IF o.type = "optional" THEN "UNMET OPTIONAL DEPENDENCY "
                                         ELSE "UNMET DEPENDENCY "

Label(o) ==
  (IF o.missing # "" THEN <<MissingMsg(o)>> ELSE <<>>) \o
  Printable(o) \o
  (IF o.dedupe THEN <<" deduped">> ELSE <<>>) \o
  (IF o.invalid THEN <<" invalid">> ELSE <<>>) \o
  (IF ObjExtraneous(o) THEN <<" extraneous">> ELSE <<>>) \o
  (IF ObjIsLink(o) THEN <<" -> ", RealPath>> ELSE <<>>)

NoProblem == <<>>

(* Mutant: extraneous is tested before invalid *)
ProblemExtraneousFirst(o) ==
  IF o.missing # "" THEN <<"missing: ", o.pkgid, ", required by ", o.missing>>
  ELSE IF ObjExtraneous(o) THEN <<"extraneous: ", o.pkgid, " ", o.path>>
  ELSE IF o.invalid THEN <<"invalid: ", o.pkgid, " ", o.path>>
  ELSE NoProblem

Problem(o) ==
  IF o.missing # "" THEN <<"missing: ", o.pkgid, ", required by ", o.missing>>
  ELSE IF o.invalid THEN <<"invalid: ", o.pkgid, " ", o.path>>
  ELSE IF ObjExtraneous(o) THEN <<"extraneous: ", o.pkgid, " ", o.path>>
  ELSE NoProblem

----------------------------------------------------------------------------
(* edgesToNodes *)

(* One edge: the object it yields and the heap after the markers are set.  *)
(* A resolved edge yields the shared Node itself, and writes the edge's     *)
(* kind and invalid flag onto it.                                           *)
edgesToNodes(e, h) ==
  LET placeholder == EdgeMissing(e) \/ (EdgeOptional(e) /\ e.to = NoNode)
      h1 == IF placeholder THEN Alloc(h, MissingObj(e)) ELSE h
      id == IF placeholder THEN Size(h) ELSE e.to
  IN [h  |-> [h1 EXCEPT ![id].type = e.type, ![id].invalid = e.invalid],
      id |-> id]

(* .map(edgesToNodes) over the kept edges, left to right *)
RECURSIVE MapEdges(_, _)
MapEdges(es, h) ==
  IF es = <<>> THEN [h |-> h, ids |-> <<>>]
  ELSE LET r == edgesToNodes(Head(es), h)
           rest == MapEdges(Tail(es), r.h)
       IN [h |-> rest.h, ids |-> <<r.id>> \o rest.ids]

----------------------------------------------------------------------------
(* shouldInclude / filterByPositionalArgs *)

(* The while loop of shouldInclude: p starts at node[_parent], which is the *)
(* item that visit returned for the parent, and follows p[_parent].         *)
RECURSIVE MarkAncestors(_, _)
MarkAncestors(its, p) ==
  IF p = NoItem THEN its
  ELSE MarkAncestors([its EXCEPT ![p].include = TRUE], its[p].parent)

(* args.some(shouldInclude(node, opt)) finds a spec the node satisfies *)
SomeSatisfied(o) == \E k \in 1..Len(args) : Satisfies(o.node, args[k])

(* node.satisfies is not a function: placeholders are plain objects *)
SatisfiesThrows(o) == Len(args) > 0 /\ ~IsArboristNode(o)

filterByPositionalArgs(o) == IF Len(args) > 0 THEN SomeSatisfied(o) ELSE TRUE

(* The items after filterByPositionalArgs ran on o *)
shouldInclude(its, o) ==
  IF Len(args) > 0 /\ SomeSatisfied(o) /\ ~flatOptions.parseable
  THEN MarkAncestors(its, o.parent)
  ELSE its

----------------------------------------------------------------------------
(* getChildren *)

OnlyDev == config.only \in {"dev", "development"}
OnlyProd == config.only \in {"prod", "production"}

(* Mutant: the development toggle does not turn the dev filter on *)
filterDevWithoutDevelopment(o) == ObjIsRoot(o) /\ (config.dev \/ OnlyDev)
filterDev(o) == ObjIsRoot(o) /\ (config.dev \/ config.development \/ OnlyDev)
filterProd(o) == ObjIsRoot(o) /\ (config.prod \/ config.production \/ OnlyProd)

(* Mutant: the link filter is applied at every node *)
filterLinkEverywhere(o) == config.link
filterLink(o) == ObjIsRoot(o) /\ config.link

KeepEdge(o, e) ==
  /\ filterDev(o) => EdgeDev(e)
  /\ filterProd(o) => (~EdgeDev(e) /\ ~EdgePeer(e) /\ ~EdgePeerOptional(e))
  /\ filterLink(o) => (e.to # NoNode /\ IsLink(e.to))

(* Mutant: the depth limit is not enforced *)
DepthCutIgnoringDepth(o) == ~IsArboristNode(o)

(* Mutant: the depth limit cuts one level early *)
DepthCutAtLimit(o) == ~IsArboristNode(o) \/ o.depth >= flatOptions.depth

DepthCut(o) == ~IsArboristNode(o) \/ o.depth > flatOptions.depth

(* Mutant: extraneous children are appended at the root only *)
ExtraneousChildrenAtRootOnly(n, children) ==
  IF n = tree THEN SelectSeq(children, Extraneous) ELSE <<>>

(* children is the sequence [...node.children.values()] of the Node n *)
ExtraneousChildren(n, children) == SelectSeq(children, Extraneous)

(* seen.has(i) *)
SeenHas(sn, i) == \E k \in 1..Len(sn) : sn[k] = i

(* The second .map of getChildren, left to right over the candidates; it   *)
(* stops where node.satisfies throws.                                       *)
RECURSIVE MapKids(_, _, _, _, _, _)
MapKids(cands, h, its, sn, pid, pdepth) ==
  IF cands = <<>> THEN [h |-> h, its |-> its, kids |-> <<>>, threw |-> FALSE]
  ELSE
    LET i0 == Head(cands)
        dup == SeenHas(sn, i0)
        h1 == IF dup THEN Alloc(h, DedupeObj(h[i0])) ELSE h
        i  == IF dup THEN Size(h) ELSE i0
        h2 == [h1 EXCEPT ![i].parent = pid]
    IN IF SatisfiesThrows(h2[i])
       THEN [h |-> h2, its |-> its, kids |-> <<>>, threw |-> TRUE]
       ELSE
         LET its1 == shouldInclude(its, h2[i])
             h3 == [h2 EXCEPT ![i].include = filterByPositionalArgs(h2[i]),
                              ![i].depth = pdepth + 1]
             rest == MapKids(Tail(cands), h3, its1, sn, pid, pdepth)
         IN [h |-> rest.h, its |-> rest.its, kids |-> <<i>> \o rest.kids,
             threw |-> rest.threw]

(* .sort((a, b) => a.pkgid.localeCompare(b.pkgid)), a stable sort *)
RECURSIVE InsertKid(_, _, _)
InsertKid(x, s, h) ==
  IF s = <<>> THEN <<x>>
  ELSE IF localeCompare(h[Head(s)].pkgid, h[x].pkgid) <= 0
       THEN <<Head(s)>> \o InsertKid(x, Tail(s), h)
       ELSE <<x>> \o s

RECURSIVE SortKids(_, _)
SortKids(s, h) ==
  IF s = <<>> THEN <<>>
  ELSE InsertKid(s[Len(s)], SortKids(SubSeq(s, 1, Len(s) - 1), h), h)

(* edgesOut is the sequence [...node.edgesOut.values()] of the node, and   *)
(* extraneousChildren its [...node.children.values()] after the filter     *)
(* i => i.extraneous                                                        *)
getChildren(id, h, its, sn, edgesOut, extraneousChildren) ==
  IF DepthCut(h[id]) THEN [h |-> h, its |-> its, kids |-> <<>>, threw |-> FALSE]
  ELSE
    LET o == h[id]
        kept == SelectSeq(edgesOut, LAMBDA e : KeepEdge(o, e))
        m == MapEdges(kept, h)
        cands == m.ids \o extraneousChildren
        r == MapKids(cands, m.h, its, sn, id, o.depth)
    IN [h |-> r.h, its |-> r.its, kids |-> SortKids(r.kids, r.h), threw |-> r.threw]

----------------------------------------------------------------------------
(* The renderings *)

EmptyEntry == -2
EOL == "\n"

(* archy(result): one line per entry, parents before children, each with   *)
(* its nesting level                                                        *)
RECURSIVE Archy(_, _, _)
RECURSIVE ArchyAll(_, _, _)
Archy(its, id, level) ==
  IF id = EmptyEntry THEN <<[level |-> level, label |-> <<"(empty)">>]>>
  ELSE <<[level |-> level, label |-> its[id].label]>> \o
       ArchyAll(its, its[id].nodes, level + 1)
ArchyAll(its, ids, level) ==
  IF ids = <<>> THEN <<>>
  ELSE Archy(its, Head(ids), level) \o ArchyAll(its, Tail(ids), level)

(* The parseable listing: the paths of the seen objects that have a path   *)
(* and are marked included, in the order of the seen Set                    *)
ParseableLine(o) == o.path # NoPath /\ o.include
RECURSIVE ParseableLines(_, _)
ParseableLines(sn, h) ==
  IF sn = <<>> THEN <<>>
  ELSE (IF ParseableLine(h[Head(sn)]) THEN <<h[Head(sn)].path>> ELSE <<>>) \o
       ParseableLines(Tail(sn), h)

(* [...problems].join(EOL) *)
RECURSIVE Join(_)
Join(ps) ==
  IF ps = <<>> THEN <<>>
  ELSE IF Len(ps) = 1 THEN ps[1]
  ELSE ps[1] \o <<EOL>> \o Join(Tail(ps))

(* problems.add(problem) *)
AddProblem(ps, p) ==
  IF p = NoProblem \/ (\E k \in 1..Len(ps) : ps[k] = p) THEN ps ELSE Append(ps, p)

NoError == [code |-> "", message |-> <<>>]
NoFirst == [out |-> <<>>, problems |-> <<>>, exitCode |-> 0, error |-> NoError]

----------------------------------------------------------------------------
(* The state after loadActual() and the declarations of ls, with the root  *)
(* pushed on treeverse's queue                                              *)

(* The Nodes that loadActual() builds, with tree[_include] set *)
FreshObjs ==
  [n \in AllNodeIds |->
     IF n = tree THEN [NodeObj(n) EXCEPT !.include = (Len(args) = 0)]
                 ELSE NodeObj(n)]

Start ==
  /\ objs = FreshObjs
  /\ run = 1
  /\ firstRun = NoFirst
  /\ queue = <<tree>>
  /\ seen = <<>>
  /\ items = [x \in {} |-> 0]
  /\ problems = <<>>
  /\ result = NoItem
  /\ exitCode = 0
  /\ out = <<>>
  /\ error = NoError
  /\ pc = "walk"

(* One turn of treeverse's loop on a node it has not visited: the node is  *)
(* shifted off the queue, then visit, then getChildren, whose result is    *)
(* pushed on the queue.                                                     *)
Visit ==
  /\ pc = "walk"
  /\ queue # <<>>
  /\ Head(queue) \notin DOMAIN items
  /\ \E edgesOut \in (IF IsArboristNode(objs[Head(queue)])
                       THEN EdgesOutOrders(objs[Head(queue)].node) ELSE {<<>>}) :
     \E extraneousChildren \in
          (IF IsArboristNode(objs[Head(queue)])
           THEN {ExtraneousChildren(objs[Head(queue)].node, c) :
                   c \in ChildrenOrders(objs[Head(queue)].node)}
           ELSE {<<>>}) :
     LET id == Head(queue)
         node == objs[id]
         item == [label |-> Label(node), nodes |-> <<>>, include |-> FALSE,
                  parent |-> NoItem]
         its0 == items @@ (id :> item)
         its1 == IF node.include /\ node.parent # NoItem
                 THEN [its0 EXCEPT ![node.parent].nodes = Append(@, id)]
                 ELSE its0
         h1 == IF node.parent = NoItem THEN [objs EXCEPT ![id].depth = 0] ELSE objs
         sn == Append(seen, id)
         r == getChildren(id, h1, its1, sn, edgesOut, extraneousChildren)
     IN /\ seen' = sn
        /\ problems' = AddProblem(problems, Problem(node))
        /\ objs' = r.h
        /\ items' = r.its
        /\ IF r.threw
           THEN /\ error' = [code |-> "TypeError", message |-> <<>>]
                /\ pc' = "done"
                /\ queue' = Tail(queue)
           ELSE /\ error' = error
                /\ pc' = pc
                /\ queue' = Tail(queue) \o r.kids
  /\ UNCHANGED <<inputs, invocations, result, exitCode, out>>

(* One turn of treeverse's loop on an object it has visited already *)
SkipVisited ==
  /\ pc = "walk"
  /\ queue # <<>>
  /\ Head(queue) \in DOMAIN items
  /\ queue' = Tail(queue)
  /\ UNCHANGED <<inputs, invocations, objs, seen, items, problems, result, exitCode, out, error, pc>>

(* breadth() returns the root's item; the (empty) placeholder *)
EmptyCheck ==
  /\ pc = "walk"
  /\ queue = <<>>
  /\ result' = tree
  /\ IF items[tree].nodes = <<>>
     THEN /\ items' = [items EXCEPT ![tree].nodes = <<EmptyEntry>>]
          /\ exitCode' = IF Len(args) > 0 THEN 1 ELSE exitCode
     ELSE UNCHANGED <<items, exitCode>>
  /\ pc' = "output"
  /\ UNCHANGED <<inputs, invocations, objs, queue, seen, problems, out, error>>

Output ==
  /\ pc = "output"
  /\ out' = Append(out,
       IF flatOptions.parseable
       THEN [kind |-> "parseable", lines |-> ParseableLines(seen, objs)]
       ELSE [kind |-> "tree", lines |-> Archy(items, result, 0)])
  /\ pc' = "errors"
  /\ UNCHANGED <<inputs, invocations, objs, queue, seen, items, problems, result, exitCode, error>>

(* Mutant: the checks run as soon as the walk is over, before the output  *)
ErrorChecksBeforeOutput ==
  /\ pc = "output"
  /\ error' = IF rootError
              THEN [code |-> "EJSONPARSE",
                    message |-> <<"Failed to parse root package.json">>]
              ELSE IF Len(problems) > 0
              THEN [code |-> "ELSPROBLEMS", message |-> Join(problems)]
              ELSE error
  /\ pc' = "done"
  /\ UNCHANGED <<inputs, invocations, objs, queue, seen, items, problems, result, exitCode, out>>

(* The checks after the output: the root's parse error first, then the    *)
(* collected problems                                                       *)
ErrorChecks ==
  /\ pc = "errors"
  /\ error' = IF rootError
              THEN [code |-> "EJSONPARSE",
                    message |-> <<"Failed to parse root package.json">>]
              ELSE IF Len(problems) > 0
              THEN [code |-> "ELSPROBLEMS", message |-> Join(problems)]
              ELSE error
  /\ pc' = "done"
  /\ UNCHANGED <<inputs, invocations, objs, queue, seen, items, problems, result, exitCode, out>>

Next == Visit \/ SkipVisited \/ EmptyCheck \/ Output \/ ErrorChecks

(* Mutant: the second invocation gets the Node objects of the first, with  *)
(* the marker fields the first left on them                                *)
SecondLoadCached ==
  [n \in AllNodeIds |->
     IF n = tree THEN [objs[n] EXCEPT !.include = (Len(args) = 0)] ELSE objs[n]]

(* The Nodes a second invocation works on: ls makes a new Arborist and     *)
(* calls loadActual() on it at every invocation, so the Nodes are new      *)
SecondLoad == FreshObjs

(* ls is invoked once more in the same process, on the same tree on disk   *)
(* and with the same arguments and options; process.exitCode is kept       *)
Rerun ==
  /\ pc = "done"
  /\ run = 1
  /\ run' = 2
  /\ firstRun' = [out |-> out, problems |-> problems, exitCode |-> exitCode,
                  error |-> error]
  /\ objs' = SecondLoad
  /\ queue' = <<tree>>
  /\ seen' = <<>>
  /\ items' = [x \in {} |-> 0]
  /\ problems' = <<>>
  /\ result' = NoItem
  /\ out' = <<>>
  /\ error' = NoError
  /\ pc' = "walk"
  /\ UNCHANGED <<inputs, exitCode>>

NextTwice == Next \/ Rerun

----------------------------------------------------------------------------
(* The inputs: loaded trees and option sets *)

DefaultConfig ==
  [dev |-> FALSE, development |-> FALSE, link |-> FALSE, only |-> "",
   prod |-> FALSE, production |-> FALSE]

Specs == {NodeNames[n] : n \in NodeIds} \cup {"foo"}
ArgLists == {<<>>} \cup {<<s>> : s \in Specs}

Mentioned(E) == ({e.from : e \in E} \cup {e.to : e \in E}) \ {tree, NoNode}

(* Plain edges: every pair of a Node and another Node or an unresolved     *)
(* dependency                                                               *)
PlainEdges ==
  {[from |-> f, to |-> t, type |-> "prod", invalid |-> FALSE] :
     f \in AllNodeIds, t \in NodeIds \cup {NoNode}}

NoSelfEdge(E) == \A e \in E : e.from # e.to

(* The graph provider flags the Nodes no chain of edges from the root      *)
(* reaches                                                                  *)
Unreached(N, E) == N \ ReachFrom({tree}, E)

(* Trees of plain edges, every Node in the root's children; all depths,    *)
(* filter lists and both renderings                                         *)
Init ==
  /\ edges \in {E \in SUBSET PlainEdges : Cardinality(E) <= MaxEdges /\ NoSelfEdge(E)}
  /\ nodes = Mentioned(edges)
  /\ fsParent = [n \in nodes |-> tree]
  /\ links = {}
  /\ extraneous = Unreached(nodes, edges)
  /\ rootError = FALSE
  /\ args \in ArgLists
  /\ flatOptions \in [depth : 0..MaxDepth, parseable : BOOLEAN]
  /\ config = DefaultConfig
  /\ Start

Spec == Init /\ [][Next]_vars

----------------------------------------------------------------------------
(* Trees whose edges have a dependency kind, with links, extraneous and    *)
(* nested packages, under the dependency-kind options                       *)

(* devDependencies are loaded for the root only *)
KindEdges ==
  {e \in [from : {tree, 1}, to : {1, 2, NoNode}, type : {"prod", "dev", "optional"},
          invalid : {FALSE}] :
     e.type = "dev" => e.from = tree}

(* A Link Node has no edges of its own and no children *)
LinksAreLeaves(L, E, f) ==
  \A l \in L : (\A e \in E : e.from # l) /\ (\A n \in DOMAIN f : f[n] # l)

(* A root whose package.json did not parse has no edges *)
NoManifestNoEdges(r, E) == r => \A e \in E : e.from # tree

(* edgesOut is a Map keyed by the dependency's name *)
OnePerName(E) ==
  \A e1, e2 \in E : (e1.from = e2.from /\ e1.to = e2.to) => e1 = e2

KindConfigs ==
  {DefaultConfig,
   [DefaultConfig EXCEPT !.dev = TRUE],
   [DefaultConfig EXCEPT !.development = TRUE],
   [DefaultConfig EXCEPT !.only = "dev"],
   [DefaultConfig EXCEPT !.prod = TRUE],
   [DefaultConfig EXCEPT !.only = "production"],
   [DefaultConfig EXCEPT !.link = TRUE]}

InitKinds ==
  /\ edges \in {E \in SUBSET KindEdges :
                  Cardinality(E) <= MaxKindEdges /\ NoSelfEdge(E) /\ OnePerName(E)}
  /\ nodes \in {Mentioned(edges), Mentioned(edges) \cup {3}}
  /\ fsParent \in {f \in [nodes -> {tree, 1}] :
                     \A n \in nodes : f[n] # tree => (n = 3 /\ f[n] \in nodes)}
  /\ links \in {L \in {{}, {1} \cap nodes, {2} \cap nodes} : LinksAreLeaves(L, edges, fsParent)}
  /\ extraneous = Unreached(nodes, edges)
  /\ rootError \in {r \in BOOLEAN : NoManifestNoEdges(r, edges)}
  /\ args \in {<<>>, <<"a">>}
  /\ flatOptions \in [depth : {0, MaxDepth}, parseable : {FALSE}]
  /\ config \in KindConfigs
  /\ Start

SpecKinds == InitKinds /\ [][Next]_vars

----------------------------------------------------------------------------
(* Trees over the packages a and b whose resolved edges may be invalid,    *)
(* cycles included, under a depth of 0, 1 or no limit                      *)

InvalidEdges ==
  {[from |-> f, to |-> t, type |-> "prod", invalid |-> i] :
     f \in {tree, 1, 2}, t \in {1, 2, NoNode}, i \in BOOLEAN}

(* Only an edge with a target can be invalid *)
InvalidHasTarget(E) == \A e \in E : e.invalid => e.to # NoNode

InitInvalid ==
  /\ edges \in {E \in SUBSET InvalidEdges :
                  /\ Cardinality(E) <= MaxInvalidEdges
                  /\ NoSelfEdge(E) /\ OnePerName(E) /\ InvalidHasTarget(E)}
  /\ nodes = Mentioned(edges)
  /\ fsParent = [n \in nodes |-> tree]
  /\ links = {}
  /\ extraneous = Unreached(nodes, edges)
  /\ rootError = FALSE
  /\ args \in {<<>>, <<"a">>}
  /\ flatOptions \in [depth : {0, 1, Infinity}, parseable : BOOLEAN]
  /\ config = DefaultConfig
  /\ Start

SpecInvalid == InitInvalid /\ [][Next]_vars

(* The same trees, reported twice in a row *)
SpecTwice == InitInvalid /\ [][NextTwice]_vars

----------------------------------------------------------------------------
(* Vocabulary of the properties *)

Parseable == flatOptions.parseable
Visited == {seen[k] : k \in 1..Len(seen)}
PosInSeen(id) == CHOOSE k \in 1..Len(seen) : seen[k] = id
Entries(id) == {items[id].nodes[k] : k \in 1..Len(items[id].nodes)} \ {EmptyEntry}

(* The items the rendered tree holds: those reachable from the root's item *)
RECURSIVE EntriesBelow(_)
EntriesBelow(S) ==
  LET T == S \cup UNION {Entries(id) : id \in S}
  IN IF T = S THEN S ELSE EntriesBelow(T)
Rendered == EntriesBelow({tree})

(* The walk ended and ls went on to its end (it did not throw midway) *)
Crashed == error.code = "TypeError"
Finished == pc = "done" /\ ~Crashed

(* The Nodes that are child candidates of Node P: targets of the edges the *)
(* kind filters keep, and extraneous children                               *)
CandidatesOf(P) ==
  {e.to : e \in {x \in edges : x.from = P /\ x.to # NoNode /\ KeepEdge(objs[P], x)}}
    \cup {c \in nodes : fsParent[c] = P /\ c \in extraneous}

(* The Nodes that were expanded: visited, and not cut by the depth limit *)
ExpandedNodes ==
  {P \in Visited : objs[P].kind = "node" /\ objs[P].depth <= flatOptions.depth}

(* C1: a Node that is a child candidate of two or more expanded parents    *)
(* has its one full entry under the parent that was expanded first, and a  *)
(* childless entry labelled deduped under every other such parent (stated  *)
(* for trees without extraneous packages and an empty filter list).        *)
SharedChildDedupedEverywhereElse ==
  (Finished /\ ~Parseable /\ args = <<>> /\ extraneous = {}) =>
    \A X \in nodes :
      LET Ps == {P \in ExpandedNodes : X \in CandidatesOf(P)}
      IN Cardinality(Ps) >= 2 =>
           LET first == CHOOSE P \in Ps : \A Q \in Ps : PosInSeen(P) <= PosInSeen(Q)
           IN /\ X \in Rendered
              /\ X \in Entries(first)
              /\ \A P \in Ps \ {first} :
                   \E k \in Entries(P) :
                     /\ objs[k].kind = "dedupe"
                     /\ objs[k].node = X
                     /\ items[k].label = <<Pkgid(X), " deduped">>
                     /\ items[k].nodes = <<>>

(* The chain of traversal nodes above a visited one: the node whose item   *)
(* is its _parent, and so on up to the root                                 *)
RECURSIVE Ancestors(_)
Ancestors(id) ==
  IF objs[id].parent = NoItem THEN {}
  ELSE {objs[id].parent} \cup Ancestors(objs[id].parent)

Matches(id) == objs[id].kind = "node" /\ SomeSatisfied(objs[id])

(* C2: with a non-empty filter list, in tree rendering every ancestor of a *)
(* visited node that satisfies a filter entry is marked included and has   *)
(* its entry in the tree, so the tree holds the path from the root to the  *)
(* match; in parseable rendering no node is marked included for a match of *)
(* a descendant.                                                           *)
AncestorsOfMatchesShown ==
  (Finished /\ Len(args) > 0) =>
    IF ~Parseable
    THEN \A id \in Visited \ {tree} :
           Matches(id) =>
             /\ id \in Rendered
             /\ \A p \in Ancestors(id) \ {tree} : objs[p].include /\ p \in Rendered
    ELSE \A id \in Visited :
           /\ ~items[id].include
           /\ (objs[id].include => Matches(id))

(* The tree rendering that was emitted, and the parseable one *)
TreeLines == IF out # <<>> /\ out[1].kind = "tree" THEN out[1].lines ELSE <<>>
EmptyLabel == <<"(empty)">>
NodeLines == SelectSeq(TreeLines, LAMBDA l : l.label # EmptyLabel)
PathLines == IF out # <<>> /\ out[1].kind = "parseable" THEN out[1].lines ELSE <<>>
SeenWithPath(path) == {id \in Visited : objs[id].path = path}

(* C3 as stated: nothing deeper than the configured depth is rendered in   *)
(* the tree or listed in the parseable output.                              *)
NothingBelowMaxDepth ==
  /\ \A k \in 1..Len(NodeLines) : NodeLines[k].level <= flatOptions.depth
  /\ \A k \in 1..Len(PathLines) :
       \A id \in SeenWithPath(PathLines[k]) : objs[id].depth <= flatOptions.depth

(* C3 amended: nothing deeper than one level below the configured depth is *)
(* visited, rendered in the tree or listed in the parseable output: the    *)
(* nodes at depth d + 1 are rendered as leaves.                             *)
NothingBelowMaxDepthPlusOne ==
  /\ \A id \in Visited : objs[id].depth <= flatOptions.depth + 1
  /\ \A id \in Visited : objs[id].depth > flatOptions.depth => items[id].nodes = <<>>
  /\ \A k \in 1..Len(NodeLines) : NodeLines[k].level <= flatOptions.depth + 1
  /\ \A k \in 1..Len(PathLines) :
       \A id \in SeenWithPath(PathLines[k]) : objs[id].depth <= flatOptions.depth + 1

(* With depth 0 the tree shows a direct dependency of the root, one level  *)
(* below the configured depth, and its own dependency is cut.              *)
DirectDependencyShownAtDepthZero ==
  /\ pc = "done"
  /\ flatOptions.depth = 0
  /\ \E k \in 1..Len(NodeLines) : NodeLines[k].level = 1 /\ NodeLines[k].label = <<"a@1.0.0">>
  /\ \E e \in edges : e.from = 1 /\ e.to = 2
  /\ 2 \notin Visited

(* C4: the entries under any one parent of the rendered tree are in        *)
(* non-decreasing pkgid order (stated for trees without extraneous         *)
(* packages).                                                               *)
SiblingsSorted ==
  (Finished /\ ~Parseable /\ extraneous = {}) =>
    \A id \in DOMAIN items :
      \A i, j \in 1..Len(items[id].nodes) :
        (i < j /\ items[id].nodes[i] # EmptyEntry /\ items[id].nodes[j] # EmptyEntry) =>
          localeCompare(objs[items[id].nodes[i]].pkgid,
                        objs[items[id].nodes[j]].pkgid) <= 0

(* C5: whatever the tree and the filter list, the walk visits every queued *)
(* node and the rendering is emitted.                                       *)
WalkCompletesAndOutputs ==
  /\ ~Crashed
  /\ pc = "done" => (queue = <<>> /\ Len(out) = 1)

Failed == error.code \in {"EJSONPARSE", "ELSPROBLEMS"}

(* C6: when ls ends with the root-parse failure or with the aggregate      *)
(* problems failure, the rendering has been emitted exactly once before;   *)
(* nothing is emitted twice, and nothing after the failure.                 *)
OutputBeforeFailure ==
  /\ Len(out) <= 1
  /\ Failed => (Len(out) = 1 /\ pc = "done")
  /\ pc = "done" => (Failed \/ Crashed \/ (error = NoError /\ Len(out) = 1))

(* Both failure conditions are met: the root's manifest did not parse and  *)
(* problems were collected; the rendering is out and the parse failure is  *)
(* the one raised.                                                          *)
FailedAfterOutput ==
  /\ pc = "done"
  /\ error.code = "EJSONPARSE"
  /\ Len(problems) > 0
  /\ Len(out) = 1

(* The non-optional edges of the root that have no target *)
RootMissingEdges == {e \in edges : e.from = tree /\ e.to = NoNode /\ e.type # "optional"}
MissingProblem(e) == <<"missing: ", EdgeSpecPkgid(e), ", required by ", RootPkgid>>
UnmetLabel(e) == <<"UNMET DEPENDENCY ", EdgeSpecPkgid(e)>>
HasProblem(p) == \E k \in 1..Len(problems) : problems[k] = p
Distinct(sq) == \A i, j \in 1..Len(sq) : i # j => sq[i] # sq[j]

(* What C7 promises for a missing edge e of the root *)
MissingReported(e) ==
  /\ HasProblem(MissingProblem(e))
  /\ \E k \in Entries(tree) : items[k].label = UnmetLabel(e)
  /\ \E k \in 1..Len(TreeLines) : TreeLines[k].level = 1 /\ TreeLines[k].label = UnmetLabel(e)
  /\ error.code = "ELSPROBLEMS"
  /\ Distinct(problems)
  /\ error.message = Join(problems)

(* C7: every missing non-optional edge of the root is reported as a       *)
(* problem, rendered as UNMET DEPENDENCY under the root, and ends the      *)
(* invocation with the aggregate-problems failure (stated for reports      *)
(* without a dependency-kind filter, whatever the filter list).            *)
RootMissingAlwaysReported ==
  (pc = "done" /\ config = DefaultConfig) =>
    \A e \in RootMissingEdges : MissingReported(e)

DevFilterOn == config.dev \/ config.development \/ config.only \in {"dev", "development"}
ProdFilterOn == config.prod \/ config.production \/ config.only \in {"prod", "production"}

(* The Nodes the graph holds that no edge targets and that are flagged     *)
(* extraneous                                                               *)
UnreferencedExtraneous == {X \in extraneous : \A e \in edges : e.to # X}
ExtraneousProblem(X) == <<"extraneous: ", Pkgid(X), " ", Path(X)>>
ExtraneousShown(X) ==
  /\ X \in Visited
  /\ X \in Entries(fsParent[X])
  /\ X \in Rendered
  /\ \E k \in 1..Len(items[X].label) : items[X].label[k] = " extraneous"
  /\ HasProblem(ExtraneousProblem(X))

(* C8: with an empty filter list, an extraneous Node that no edge targets  *)
(* and that is in the child set of an expanded node is visited, rendered   *)
(* under that node with the extraneous suffix, and reported as a problem,  *)
(* whichever dependency-kind filters are active.                            *)
ExtraneousChildrenReported ==
  (pc \in {"output", "errors", "done"} /\ args = <<>>) =>
    \A X \in UnreferencedExtraneous :
      fsParent[X] \in ExpandedNodes => ExtraneousShown(X)

(* An extraneous package nested in a dependency of the root is shown under *)
(* that dependency while the link-only filter is on.                        *)
NestedExtraneousShown ==
  /\ pc = "done"
  /\ config.link
  /\ 3 \in UnreferencedExtraneous
  /\ fsParent[3] = 1
  /\ 1 \in ExpandedNodes
  /\ ExtraneousShown(3)

NoNodeSatisfies ==
  \A n \in nodes \cup {tree} : \A k \in 1..Len(args) : ~Satisfies(n, args[k])

(* C9: with a non-empty filter list that no node of the graph satisfies,   *)
(* the tree output is the root's entry with the (empty) placeholder as its *)
(* only child, and the exit status is non-zero.                             *)
NoMatchShowsEmpty ==
  (pc = "done" /\ Len(args) > 0 /\ ~Parseable /\ NoNodeSatisfies) =>
    /\ TreeLines = <<[level |-> 0, label |-> <<RootPkgid, " ", RootPath>>],
                     [level |-> 1, label |-> EmptyLabel]>>
    /\ exitCode = 1

NodeOfPath(path) == CHOOSE n \in AllNodeIds : Path(n) = path
IsNodePath(path) == \E n \in AllNodeIds : Path(n) = path
ParseableOut == out # <<>> /\ out[1].kind = "parseable"

(* C10: the parseable output has one line for every visited Node that is   *)
(* marked included, in the order of the visits, and no other line: no Node *)
(* is listed twice, placeholders and deduped references are not listed,    *)
(* and with an empty filter list the first line is the root's path.        *)
ParseableListsVisitedNodesOnce ==
  ParseableOut =>
    /\ Distinct(PathLines)
    /\ \A k \in 1..Len(PathLines) : IsNodePath(PathLines[k])
    /\ \A n \in AllNodeIds :
         (\E k \in 1..Len(PathLines) : PathLines[k] = Path(n))
           <=> (n \in Visited /\ objs[n].include)
    /\ \A i, j \in 1..Len(PathLines) :
         i < j => PosInSeen(NodeOfPath(PathLines[i])) < PosInSeen(NodeOfPath(PathLines[j]))
    /\ args = <<>> => (Len(PathLines) >= 1 /\ PathLines[1] = RootPath)

(* A parseable listing of three Nodes after a walk that also visited a     *)
(* missing placeholder and a deduped reference.                             *)
ParseableWithPlaceholdersSkipped ==
  /\ ParseableOut
  /\ Len(PathLines) = 3
  /\ \E id \in Visited : objs[id].kind = "missing"
  /\ \E id \in Visited : objs[id].kind = "dedupe"
  /\ Len(seen) > Len(PathLines)

----------------------------------------------------------------------------
(* The visited objects that are the Node n itself *)
VisitsOf(n) == {id \in Visited : objs[id].kind = "node" /\ objs[id].node = n}

HasCycle == \E e, f \in edges : e.from = f.to /\ e.to = f.from /\ e.from # NoNode

(* What is left to do: the statements after the walk, the queue, and for   *)
(* every Node object not visited yet more than the children one expansion  *)
(* can push (one per edge and one per package)                             *)
PcRank == CASE pc = "walk" -> 3 [] pc = "output" -> 2 [] pc = "errors" -> 1 [] OTHER -> 0
Unvisited == {id \in DOMAIN objs : objs[id].kind = "node" /\ id \notin Visited}
Remaining ==
  PcRank + Len(queue)
    + (Cardinality(edges) + Cardinality(nodes) + 1) * Cardinality(Unvisited)

(* The guards of the actions: some turn of the loop, or some statement    *)
(* after it, can be taken                                                  *)
TurnPossible ==
  \/ pc = "walk" /\ queue # <<>> /\ Head(queue) \in DOMAIN objs
  \/ pc = "walk" /\ queue = <<>>
  \/ pc = "output"
  \/ pc = "errors"

(* C11: over every finite graph, cycles included, and under every depth    *)
(* limit, the unbounded one included, the walk terminates (every step      *)
(* lowers a natural number, and a step can be taken until ls has ended),   *)
(* and no Node is visited (classified and expanded) more than once.        *)
WalkTerminatesVisitingOnce ==
  /\ [](Distinct(seen) /\ \A n \in AllNodeIds : Cardinality(VisitsOf(n)) <= 1)
  /\ [](pc = "done" \/ TurnPossible)
  /\ [][Remaining' < Remaining]_vars

(* A walk without depth limit over a cycle between a and b that ended,     *)
(* with both visited and one of them met again as a deduped stand-in       *)
CycleWalkedToTheEnd ==
  /\ pc = "done" /\ ~Crashed
  /\ HasCycle /\ flatOptions.depth = Infinity
  /\ {1, 2} \subseteq Visited
  /\ \E id \in Visited : objs[id].kind = "dedupe"

----------------------------------------------------------------------------
(* The label made at the visit of id carries the invalid suffix *)
ShownInvalid(id) ==
  \E k \in 1..Len(items[id].label) : items[id].label[k] = " invalid"

(* The Nodes that an edge classified later marked invalid after their      *)
(* visit: the marker is on the Node, the label made at the visit lacks it  *)
MarkedInvalidAfterVisit ==
  {n \in nodes \cap Visited : objs[n].invalid /\ ~ShownInvalid(n)}

ThisRun == [out |-> out, problems |-> problems, exitCode |-> exitCode, error |-> error]

(* C12: reporting twice over the same unchanged tree with the same options *)
(* and filters gives the same output, the same problems and the same exit  *)
(* status and error, although the first report left its marker fields on   *)
(* the Nodes it walked.                                                     *)
SecondReportSame ==
  (run = 2 /\ pc = "done") => ThisRun = firstRun

(* A second report that ended, over a tree in which a report marks a Node  *)
(* invalid after having visited it, with output and problems               *)
SecondReportOverMarkedNodes ==
  /\ run = 2 /\ pc = "done" /\ ~Crashed
  /\ MarkedInvalidAfterVisit # {}
  /\ out # <<>> /\ problems # <<>>

----------------------------------------------------------------------------
(* C13: classifying an edge changes no attribute of a Node that exists     *)
(* already: once a Node is visited, its invalid marking is not changed by  *)
(* a later edge with the same target, so the marking the Node has at the   *)
(* end (read for ':INVALID' in the long parseable output) is the one its   *)
(* label was made from at the visit, the edge of its rendered position.    *)
(* (stated for trees without extraneous packages)                          *)
VisitedNodeKeepsInvalidMark ==
  extraneous = {} =>
    \A n \in nodes \cap Visited : objs[n].invalid = ShownInvalid(n)

----------------------------------------------------------------------------
InvalidProblem(X) == <<"invalid: ", Pkgid(X), " ", Path(X)>>

(* C14: for every edge of an expanded Node that is flagged invalid and has *)
(* a resolved target, the node made for that position, a deduped stand-in  *)
(* included, carries the invalid flag: its label has the ' invalid'        *)
(* suffix, and the problems hold 'invalid: <pkgid> <path>' (stated for     *)
(* the tree rendering, an empty filter list and no extraneous packages).   *)
InvalidEdgeShownAtItsPosition ==
  (Finished /\ ~Parseable /\ args = <<>> /\ extraneous = {}) =>
    \A e \in edges :
      (e.invalid /\ e.to # NoNode /\ e.from \in ExpandedNodes) =>
        /\ \E k \in Entries(e.from) : objs[k].node = e.to /\ ShownInvalid(k)
        /\ HasProblem(InvalidProblem(e.to))

----------------------------------------------------------------------------
(* C15: nodes are visited level by level: along the order of the visits    *)
(* the recorded depth never decreases, and the recorded depth of a visited *)
(* node other than the root is one more than that of the node whose entry  *)
(* is its parent (stated for an empty filter list and no extraneous        *)
(* packages).                                                              *)
VisitedLevelByLevel ==
  (args = <<>> /\ extraneous = {} /\ ~Crashed) =>
    /\ \A i, j \in 1..Len(seen) :
         i < j => objs[seen[i]].depth <= objs[seen[j]].depth
    /\ \A id \in Visited \ {tree} :
         objs[id].depth = objs[objs[id].parent].depth + 1

----------------------------------------------------------------------------
EmptyShown == items[tree].nodes = <<EmptyEntry>>

(* C16: with a non-empty filter list, in either output mode, the (empty)   *)
(* placeholder is put in and the exit status set non-zero only if no       *)
(* visited node satisfies a filter entry: when some visited node does, the *)
(* exit status stays zero and no placeholder is shown.                     *)
MatchMeansNoEmptyNoFailure ==
  (Finished /\ Len(args) > 0 /\ \E id \in Visited : Matches(id)) =>
    (exitCode = 0 /\ ~EmptyShown)

----------------------------------------------------------------------------
(* A turn of the loop that visits the head of the queue and whose          *)
(* getChildren returns; the children it pushes on the queue                *)
VisitReturns ==
  /\ pc = "walk" /\ queue # <<>> /\ Head(queue) \notin DOMAIN items
  /\ seen' = Append(seen, Head(queue))
  /\ error' = error
KidsPushed == SubSeq(queue', Len(queue), Len(queue'))

(* The child candidates of the Node under object o: one for every edge the *)
(* kind filters keep, one for every extraneous child                       *)
CandidateCount(o) ==
  Cardinality({e \in edges : e.from = o.node /\ KeepEdge(o, e)})
    + Cardinality({c \in nodes : fsParent[c] = o.node /\ c \in extraneous})

(* C17: a visited traversal node produces its child candidates if and only *)
(* if it wraps a resolved Node (it is neither a missing placeholder nor a  *)
(* deduped reference) and its recorded depth does not exceed the maximum   *)
(* depth; a node deeper than the maximum produces no children (stated for  *)
(* the turns in which getChildren returns).                                *)
ChildrenOnlyFromNodesWithinDepth ==
  [][VisitReturns =>
       LET id == Head(queue)
           o == objs'[id]
       IN IF o.kind = "node" /\ o.depth <= flatOptions.depth
          THEN /\ Len(KidsPushed) = CandidateCount(o)
               /\ \A k \in 1..Len(KidsPushed) :
                    /\ objs'[KidsPushed[k]].parent = id
                    /\ objs'[KidsPushed[k]].depth = o.depth + 1
          ELSE KidsPushed = <<>>]_vars

(* A finished walk in which a Node with edges lay below the maximum depth  *)
(* and got no children, a Node within the depth got its children, and a    *)
(* placeholder or deduped reference was visited                            *)
DeepNodeLeftUnexpanded ==
  /\ Finished
  /\ \E P \in nodes \cap Visited :
       /\ objs[P].depth > flatOptions.depth
       /\ \E e \in edges : e.from = P
       /\ \A id \in DOMAIN objs : objs[id].parent # P
  /\ \E Q \in ExpandedNodes \ {tree} : Entries(Q) # {}
  /\ \E id \in Visited : objs[id].kind # "node"

----------------------------------------------------------------------------
(* The label made at the visit of id carries the extraneous suffix *)
ShownExtraneous(id) ==
  \E k \in 1..Len(items[id].label) : items[id].label[k] = " extraneous"

(* The problem of a visited node, from what it was at its visit: missing   *)
(* before invalid before extraneous                                        *)
ProblemOfVisited(id) ==
  IF objs[id].kind = "missing"
    THEN <<"missing: ", objs[id].pkgid, ", required by ", objs[id].missing>>
  ELSE IF ShownInvalid(id) THEN <<"invalid: ", objs[id].pkgid, " ", objs[id].path>>
  ELSE IF ShownExtraneous(id) THEN <<"extraneous: ", objs[id].pkgid, " ", objs[id].path>>
  ELSE <<>>

(* C18: the problems are exactly the problem strings of the visited nodes, *)
(* included in the output or not: every node gives at most one string, by  *)
(* the priority missing, invalid, extraneous, and no string is held twice. *)
ProblemsAreThoseOfVisited ==
  /\ Distinct(problems)
  /\ {problems[k] : k \in 1..Len(problems)}
       = {ProblemOfVisited(id) : id \in Visited} \ {<<>>}

(* A finished report with a filter, in which a node left out of the output *)
(* was both invalid and extraneous and is reported as invalid only         *)
InvalidExtraneousReportedInvalid ==
  /\ Finished /\ Len(args) > 0
  /\ \E id \in Visited :
       /\ ShownInvalid(id) /\ ShownExtraneous(id) /\ ~objs[id].include
       /\ HasProblem(<<"invalid: ", objs[id].pkgid, " ", objs[id].path>>)
       /\ ~HasProblem(<<"extraneous: ", objs[id].pkgid, " ", objs[id].path>>)
  /\ Len(problems) > 1

----------------------------------------------------------------------------
(* The entries under the root that are filesystem links, and those that    *)
(* are extraneous packages                                                  *)
RootEntryIsLink(k) == objs[k].kind = "node" /\ IsLink(objs[k].node)
RootEntryIsExtraneous(k) == objs[k].kind = "node" /\ Extraneous(objs[k].node)

RootEntries == IF tree \in DOMAIN items THEN Entries(tree) ELSE {}

(* Every edge of the Node under o and every extraneous child of it *)
UnfilteredCount(o) ==
  Cardinality({e \in edges : e.from = o.node})
    + Cardinality({c \in nodes : fsParent[c] = o.node /\ c \in extraneous})

(* The kind filters take no child candidate from a node other than the root *)
NoKindFilterBelowRoot ==
  [][(VisitReturns /\ Head(queue) # tree) =>
       LET o == objs'[Head(queue)]
       IN (o.kind = "node" /\ o.depth <= flatOptions.depth) =>
            Len(KidsPushed) = UnfilteredCount(o)]_vars

(* C19 as stated: with the link-only filter every direct child of the root *)
(* that is visited and rendered is a filesystem link, and the kind filters *)
(* take no child candidate from a node other than the root.                *)
LinkOnlyRootChildrenAreLinks ==
  /\ [](config.link => \A k \in RootEntries : RootEntryIsLink(k))
  /\ NoKindFilterBelowRoot

(* C19: with the link-only filter every direct child of the root that is   *)
(* visited and rendered is a filesystem link or an extraneous package      *)
(* (extraneous children are appended after the filters), and the kind      *)
(* filters take no child candidate from a node other than the root.        *)
LinkOnlyRootChildrenAreLinksOrExtraneous ==
  /\ [](config.link =>
          \A k \in RootEntries : RootEntryIsLink(k) \/ RootEntryIsExtraneous(k))
  /\ NoKindFilterBelowRoot

(* A finished report under the link-only filter whose root shows a link    *)
(* that a kept edge targets and, beside it, an extraneous package that is  *)
(* no link, which was expanded and shows the child its own edge gives      *)
LinkShownBesideExpandedExtraneous ==
  /\ Finished /\ config.link
  /\ \E k \in Entries(tree) : RootEntryIsLink(k) /\ ~RootEntryIsExtraneous(k)
  /\ \E k \in Entries(tree) :
       /\ RootEntryIsExtraneous(k) /\ ~RootEntryIsLink(k)
       /\ \E e \in edges : e.from = objs[k].node
       /\ Entries(k) # {}

----------------------------------------------------------------------------
(* The turn that visits and expands the root; edge e of the root is kept   *)
(* when a child pushed in that turn is its target or its placeholder       *)
RootExpanded == VisitReturns /\ Head(queue) = tree
RootEdgeKept(e) ==
  \E k \in 1..Len(KidsPushed) :
    LET c == objs'[KidsPushed[k]]
    IN IF e.to # NoNode
       THEN c.kind = "node" /\ c.node = e.to
       ELSE c.kind = "missing" /\ c.type = e.type
RootEdges == {e \in edges : e.from = tree}

(* C20 as stated: with the dev-only filter active a declared edge of the   *)
(* root is kept if and only if it is marked dev, except that with the      *)
(* development toggle set every declared edge of the root is kept.         *)
DevOnlyKeepsDevUnlessDevelopment ==
  [][(RootExpanded /\ DevFilterOn /\ ~ProdFilterOn /\ ~config.link) =>
       \A e \in RootEdges :
         RootEdgeKept(e) <=> (EdgeDev(e) \/ config.development)]_vars

(* C20: with the dev-only filter active, whether through dev, through the  *)
(* development toggle or through only=dev, and no other kind filter set, a *)
(* declared edge of the root is kept if and only if it is marked dev.      *)
DevOnlyKeepsDev ==
  [][(RootExpanded /\ DevFilterOn /\ ~ProdFilterOn /\ ~config.link) =>
       \A e \in RootEdges : RootEdgeKept(e) <=> EdgeDev(e)]_vars

(* A finished report under the development toggle in which the root's dev  *)
(* edge was kept and an edge of the root that is not dev was dropped       *)
DevelopmentDropsNonDev ==
  /\ Finished /\ config.development
  /\ \E e \in RootEdges :
       EdgeDev(e) /\ e.to # NoNode /\ e.to \in Visited /\ objs[e.to].parent = tree
  /\ \E e \in RootEdges : ~EdgeDev(e) /\ e.to # NoNode /\ e.to \notin Visited

====
